---- MODULE Spec2Model ----
(***************************************************************************)
(* Model of pytgcalls' media source resolution (MediaStream.check_stream,  *)
(* src/pytgcalls/types/stream/media_stream.py) and of its predicate filter *)
(* engine (InvertFilter / AndFilter / OrFilter, src/pytgcalls/filters.py). *)
(***************************************************************************)
EXTENDS Integers, Sequences, FiniteSets, TLC

VARIABLES
    req,            \* constructor arguments of the MediaStream (never change)
    video_flags,    \* self._video_flags
    audio_flags,    \* self._audio_flags
    media_path,     \* self._media_path
    audio_path,     \* self._audio_path
    stream_video,   \* self.stream_video
    stream_audio,   \* self.stream_audio
    pc,             \* where check_stream is suspended
    err,            \* exception that left check_stream, "none" if none
    trace,          \* calls made to YtDlp.extract, ffmpeg.check_stream, build_command
    tree,           \* the registered filter (a predicate tree)
    active,         \* the events (tasks) that get dispatched
    status,         \* per event: idle, running, waiting (on the executor), done, raised
    stack,          \* per event: the combinator calls in progress, innermost last
    job,            \* per event: its call submitted to client.executor
    verdict,        \* per event: what the filter returned
    flog            \* per event: the calls and returns of the nodes of the tree

filterVars == <<tree, active, status, stack, job, verdict, flog>>

streamVars == <<req, video_flags, audio_flags, media_path, audio_path,
                stream_video, stream_audio, pc, err, trace>>

-----------------------------------------------------------------------------
(* MediaStream.Flags: enum.auto() numbers the members 1, 2, 4, 8.           *)
AUTO_DETECT == 1
REQUIRED == 2
IGNORE == 4
NO_LATENCY == 8

\* flags=None of the constructor; every other raw value is a Flags member.
NoneFlags == 0 - 1

AllFlags == AUTO_DETECT + REQUIRED + IGNORE + NO_LATENCY

RawFlags == {NoneFlags} \cup (0..AllFlags)

RECURSIVE BitAnd(_, _)
BitAnd(a, b) ==
    IF a = 0 \/ b = 0 THEN 0
    ELSE (a % 2) * (b % 2) + 2 * BitAnd(a \div 2, b \div 2)

BitOr(a, b) == a + b - BitAnd(a, b)

\* ~x of a Flag: the members of the enumeration that x lacks.
BitNot(a) == AllFlags - BitAnd(a, AllFlags)

Has(flags, flag) == BitAnd(flags, flag) # 0

MaxOfSmallest(S) == CHOOSE x \in S : \A y \in S : x <= y

MaxOf(S) == CHOOSE x \in S : \A y \in S : y <= x

MinOf(S) == CHOOSE x \in S : \A y \in S : x <= y

filter_flags_unmasked(flags) ==
    IF flags = NoneFlags \/ flags = 0 THEN AUTO_DETECT ELSE flags

filter_flags_wrong_mask(flags) ==
    LET f1 == IF flags = NoneFlags \/ flags = 0 THEN AUTO_DETECT ELSE flags
        present == {flag \in {AUTO_DETECT, IGNORE, REQUIRED} : Has(f1, flag)}
        potential_flag == IF present = {} THEN AUTO_DETECT ELSE MaxOf(present)
    IN  BitAnd(f1, BitNot(potential_flag))

\* MediaStream._filter_flags.  Line 229 compares a Flag with 0; whether that
\* is a comparison of numbers or always true, line 235 gives the same value:
\* f1 is never empty, and a detection bit OR-ed in is the smallest one.
filter_flags(flags) ==
    LET combined_flags == {AUTO_DETECT, IGNORE, REQUIRED}
        combined_flags_value == AUTO_DETECT + IGNORE + REQUIRED
        f1 == IF flags = NoneFlags \/ flags = 0
              THEN MinOf(combined_flags) ELSE flags
        f2 == IF BitAnd(f1, BitNot(combined_flags_value)) # 0
              THEN BitOr(f1, MinOf(combined_flags)) ELSE f1
        potential_flag == MaxOf({flag \in combined_flags : Has(f2, flag)})
    IN  BitOr(BitAnd(f2, BitNot(combined_flags_value)), potential_flag)

\* MediaStream._flags: the InputMode of a pipeline.
input_mode(flags) ==
    IF Has(flags, NO_LATENCY) THEN {"SHELL", "NO_LATENCY"} ELSE {"SHELL"}

-----------------------------------------------------------------------------
(* Locators.  "None" is Python's None; "" and None are the falsy ones.      *)
NoneLoc == "None"

Falsy(l) == l \in {NoneLoc, ""}

RemoteRefs == {"yt", "yt2"}

MediaLocators == {"yt", "file"}

AudioLocators == {NoneLoc, "", "afile", "yt2"}

\* YtDlp.is_valid: the locator names a remote video host.
is_valid(l) == l \in RemoteRefs

\* YtDlp.extract on success: (video link, audio link), both direct locators.
extract(l) ==
    IF l = "yt" THEN <<"yt.vLink", "yt.aLink">> ELSE <<"yt2.vLink", "yt2.aLink">>

\* Outcomes of ffmpeg.check_stream (the probe) and the exception each raises.
ProbeOutcomes ==
    {"Ok", "NoAudioTrack", "NoVideoTrack", "StillImage", "LiveUnbounded",
     "ProbeUnavailable"}

Raised(outcome) ==
    CASE outcome = "Ok" -> "none"
      [] outcome = "NoAudioTrack" -> "NoAudioSourceFound"
      [] outcome = "NoVideoTrack" -> "NoVideoSourceFound"
      [] outcome = "StillImage" -> "ImageSourceFound"
      [] outcome = "LiveUnbounded" -> "LiveStreamFound"
      [] outcome = "ProbeUnavailable" -> "FFmpegError"

ImageLoop == <<"-loop", "1", "-framerate", "1">>

\* ffmpeg.build_command: a pure function of its arguments.  before_commands
\* go ahead of the input locator; a live source loses the duration flags.
build_command(name, path, params, before_commands, is_livestream) ==
    <<name>> \o before_commands \o <<"-i", path, params>>
        \o (IF is_livestream THEN <<>> ELSE <<"duration_flags">>)

\* A pipeline (AudioStream / VideoStream); NoStream is None.
Pipeline(mode, path) == [present |-> TRUE, mode |-> mode, path |-> path]

NoStream == [present |-> FALSE, mode |-> {}, path |-> <<>>]

\* One entry of the call trace.
Ev(op, kind, locator, before, live, result) ==
    [op |-> op, kind |-> kind, locator |-> locator, before |-> before,
     live |-> live, result |-> result]

-----------------------------------------------------------------------------
(* MediaStream.__init__                                                     *)
Construct(mp, ap, rawa, rawv) ==
    /\ req = [media_path |-> mp, audio_path |-> ap,
              audio_flags |-> rawa, video_flags |-> rawv]
    /\ media_path = mp
    /\ audio_path = ap
    /\ audio_flags = filter_flags(rawa)
    /\ video_flags = filter_flags(rawv)
    /\ stream_audio =
         IF Has(filter_flags(rawa), IGNORE) THEN NoStream
         ELSE Pipeline(input_mode(filter_flags(rawa)),
                       build_command("ffmpeg", ap, "audio_parameters", <<>>, FALSE))
    /\ stream_video =
         IF Has(filter_flags(rawv), IGNORE) THEN NoStream
         ELSE Pipeline(input_mode(filter_flags(rawv)),
                       build_command("ffmpeg", mp, "video_parameters", <<>>, FALSE))
    /\ pc = "ready"
    /\ err = "none"
    /\ trace = <<>>

StreamInit ==
    \E mp \in MediaLocators, ap \in AudioLocators, rawa \in RawFlags,
       rawv \in RawFlags : Construct(mp, ap, rawa, rawv)

-----------------------------------------------------------------------------
(* MediaStream.check_stream.  pc names the await the coroutine is about to  *)
(* perform; everything between two awaits is one step.                      *)

\* Line 177-178: the audio locator defaults to the (resolved) media locator.
AudioDefault(ap, mp) == IF ~Falsy(ap) THEN ap ELSE mp

AudioNextNoIgnore(ap) == IF is_valid(ap) THEN "a_extract" ELSE "a_probe"

AudioNextNoExtract(ap) == IF Has(audio_flags, IGNORE) THEN "done" ELSE "a_probe"

\* Lines 180-181: what the audio half does first, given the defaulted locator.
AudioNext(ap) ==
    IF Has(audio_flags, IGNORE) THEN "done"
    ELSE IF is_valid(ap) THEN "a_extract" ELSE "a_probe"

\* Lines 177-181, entered with the video half finished.
AudioEntry ==
    /\ audio_path' = AudioDefault(audio_path, media_path)
    /\ pc' = AudioNext(AudioDefault(audio_path, media_path))

\* links[0] and links[1] of Python are the first and second component.
VideoLink(links) == links[1]

AudioLinkFirst(links) == links[1]

AudioLink(links) == links[2]

CallDefaultsFirst ==
    /\ pc = "ready"
    /\ audio_path' = AudioDefault(audio_path, media_path)
    /\ pc' = IF ~Has(video_flags, IGNORE)
             THEN IF is_valid(media_path) THEN "v_extract" ELSE "v_probe"
             ELSE AudioNext(AudioDefault(audio_path, media_path))
    /\ UNCHANGED <<filterVars, req, video_flags, audio_flags, media_path, stream_video,
                   stream_audio, err, trace>>

\* Lines 130-132: the call, up to the first await.
Call ==
    /\ pc = "ready"
    /\ IF ~Has(video_flags, IGNORE)
       THEN /\ pc' = IF is_valid(media_path) THEN "v_extract" ELSE "v_probe"
            /\ UNCHANGED audio_path
       ELSE AudioEntry
    /\ UNCHANGED <<filterVars, req, video_flags, audio_flags, media_path, stream_video,
                   stream_audio, err, trace>>

\* Lines 133-140, YtDlp.extract returns.
VExtractOk ==
    /\ pc = "v_extract"
    /\ trace' = Append(trace, Ev("extract", "video", media_path, <<>>, FALSE,
                             "ok"))
    /\ media_path' = VideoLink(extract(media_path))
    /\ audio_path' = IF Falsy(audio_path) THEN AudioLink(extract(media_path))
                     ELSE audio_path
    /\ pc' = "v_probe"
    /\ UNCHANGED <<filterVars, req, video_flags, audio_flags, stream_video, stream_audio,
                   err>>

VExtractFailSwallowed ==
    /\ pc = "v_extract"
    /\ trace' = Append(trace, Ev("extract", "video", media_path, <<>>, FALSE,
                             "fail"))
    /\ stream_video' = NoStream
    /\ AudioEntry
    /\ UNCHANGED <<filterVars, req, video_flags, audio_flags, media_path, stream_audio,
                   err>>

\* Lines 133-137, YtDlp.extract raises: nothing encloses the call.
VExtractFail ==
    /\ pc = "v_extract"
    /\ trace' = Append(trace, Ev("extract", "video", media_path, <<>>, FALSE,
                             "fail"))
    /\ err' = "YtDlpError"
    /\ pc' = "raised"
    /\ UNCHANGED <<filterVars, req, video_flags, audio_flags, media_path, audio_path,
                   stream_video, stream_audio>>

\* Lines 152-160: the exceptions the inner try of the video half absorbs.
VideoAbsorbed == {"none", "ImageSourceFound", "LiveStreamFound"}

\* Lines 142, 152-158: the extra arguments of the video rebuild.
video_image_commands(e) == IF e = "ImageSourceFound" THEN ImageLoop ELSE <<>>

video_live_stream_never(e) == FALSE

\* Lines 143, 159-160: whether the video rebuild treats the source as live.
video_live_stream(e) == (e = "LiveStreamFound")

VideoFallbackAlways(e) == e = "NoVideoSourceFound"

VideoFallbackNever(e) == FALSE

VideoFallbackInverted(e) == e = "NoVideoSourceFound" /\ Has(video_flags, REQUIRED)

\* Lines 172-175: the exception is swallowed and the video pipeline dropped.
VideoFallback(e) == e = "NoVideoSourceFound" /\ ~Has(video_flags, REQUIRED)

\* Lines 141-181: the video probe, the rebuild or the fallback, and the
\* start of the audio half.
VProbe(outcome) ==
    LET e == Raised(outcome)
        image_commands == video_image_commands(e)
        live_stream == video_live_stream(e)
        probed == Append(trace, Ev("probe", "video", media_path, <<>>, FALSE,
                                  outcome))
        built == Append(probed, Ev("build", "video", media_path,
                                   image_commands, live_stream, "built"))
    IN  /\ pc = "v_probe"
        /\ IF e \in VideoAbsorbed
           THEN /\ trace' = built
                /\ IF stream_video.present
                   THEN /\ stream_video' =
                             [stream_video EXCEPT !.path =
                                 build_command("ffmpeg", media_path,
                                     "video_parameters", image_commands,
                                     live_stream)]
                        /\ AudioEntry
                        /\ UNCHANGED err
                   ELSE /\ err' = "AttributeError"
                        /\ pc' = "raised"
                        /\ UNCHANGED <<stream_video, audio_path>>
           ELSE /\ trace' = probed
                /\ IF VideoFallback(e)
                   THEN /\ stream_video' = NoStream
                        /\ AudioEntry
                        /\ UNCHANGED err
                   ELSE /\ err' = e
                        /\ pc' = "raised"
                        /\ UNCHANGED <<stream_video, audio_path>>
        /\ UNCHANGED <<filterVars, req, video_flags, audio_flags, media_path, stream_audio>>

\* Lines 182-188, YtDlp.extract returns.
AExtractOk ==
    /\ pc = "a_extract"
    /\ trace' = Append(trace, Ev("extract", "audio", audio_path, <<>>, FALSE,
                             "ok"))
    /\ audio_path' = AudioLink(extract(audio_path))
    /\ pc' = "a_probe"
    /\ UNCHANGED <<filterVars, req, video_flags, audio_flags, media_path, stream_video,
                   stream_audio, err>>

\* Lines 182-188, YtDlp.extract raises.
AExtractFail ==
    /\ pc = "a_extract"
    /\ trace' = Append(trace, Ev("extract", "audio", audio_path, <<>>, FALSE,
                             "fail"))
    /\ err' = "YtDlpError"
    /\ pc' = "raised"
    /\ UNCHANGED <<filterVars, req, video_flags, audio_flags, media_path, audio_path,
                   stream_video, stream_audio>>

\* Lines 200-201: the exceptions the inner try of the audio half absorbs.
AudioAbsorbed == {"none", "LiveStreamFound"}

\* Lines 191, 200-201: whether the audio rebuild treats the source as live.
audio_live_stream(e) == (e = "LiveStreamFound")

\* Lines 213-216: the exception is swallowed and the audio pipeline dropped.
AudioFallback(e) == e = "NoAudioSourceFound" /\ ~Has(audio_flags, REQUIRED)

\* Lines 190-216: the audio probe and the rebuild or the fallback.
AProbe(outcome) ==
    LET e == Raised(outcome)
        live_stream == audio_live_stream(e)
        probed == Append(trace, Ev("probe", "audio", audio_path, <<>>, FALSE,
                                  outcome))
        built == Append(probed, Ev("build", "audio", audio_path, <<>>,
                                   live_stream, "built"))
    IN  /\ pc = "a_probe"
        /\ IF e \in AudioAbsorbed
           THEN /\ trace' = built
                /\ IF stream_audio.present
                   THEN /\ stream_audio' =
                             [stream_audio EXCEPT !.path =
                                 build_command("ffmpeg", audio_path,
                                     "audio_parameters", <<>>, live_stream)]
                        /\ pc' = "done"
                        /\ UNCHANGED err
                   ELSE /\ err' = "AttributeError"
                        /\ pc' = "raised"
                        /\ UNCHANGED stream_audio
           ELSE /\ trace' = probed
                /\ IF AudioFallback(e)
                   THEN /\ stream_audio' = NoStream
                        /\ pc' = "done"
                        /\ UNCHANGED err
                   ELSE /\ err' = e
                        /\ pc' = "raised"
                        /\ UNCHANGED stream_audio
        /\ UNCHANGED <<filterVars, req, video_flags, audio_flags, media_path, audio_path,
                       stream_video>>

VProbeStep == \E outcome \in ProbeOutcomes : VProbe(outcome)

AProbeStep == \E outcome \in ProbeOutcomes : AProbe(outcome)

StreamNext ==
    \/ Call
    \/ VExtractOk
    \/ VExtractFail
    \/ VProbeStep
    \/ AExtractOk
    \/ AExtractFail
    \/ AProbeStep


-----------------------------------------------------------------------------
(* The filters of filters.py.  A tree is <<"leaf", kind, answers>>,         *)
(* <<"not", base>>, <<"and", base, other>> or <<"or", base, other>>; a node *)
(* is named by its path from the root (1 = base, 2 = other).                *)

NumEvents == 2

NumWorkers == 1

MaxNodes == 4

Tasks == 1..NumEvents

\* What a leaf gives back: Python values ("0" and "2" are not booleans), or
\* "raise" when the leaf raises.
Results == {"True", "False", "0", "2", "raise"}

Truthy(v) == v \in {"True", "2"}

LeafKinds == {"coroutine", "blocking"}

\* The leaves whose answer is chosen for the events of `act` only.
Leaves(act) ==
    {<<"leaf", k, f>> : k \in LeafKinds,
                        f \in {g \in [Tasks -> Results] :
                                  \A t \in Tasks \ act : g[t] = "False"}}

RECURSIVE TreesOf(_, _)
TreesOf(n, act) ==
    IF n = 1 THEN Leaves(act)
    ELSE {<<"not", b>> : b \in TreesOf(n - 1, act)}
         \cup UNION {{<<op, b, o>> : op \in {"and", "or"},
                                     b \in TreesOf(k, act),
                                     o \in TreesOf(n - 1 - k, act)} :
                     k \in 1..(n - 2)}

\* Filter.__invert__, __and__, __or__ build the trees; the root is a combinator.
Filters(act, maxNodes) == UNION {TreesOf(n, act) : n \in 2..maxNodes}

\* inspect.iscoroutinefunction(node.__call__): the combinators' __call__ are
\* async def, a leaf is what create() was given.
iscoroutinefunction(node) == node[1] # "leaf" \/ node[2] = "coroutine"

Frame(path, node) == [path |-> path, node |-> node, stage |-> "base", x |-> "None"]

\* The child the innermost call evaluates next, and its path.
Child(f) == IF f.stage = "base" THEN f.node[2] ELSE f.node[3]

ChildPath(f) == Append(f.path, IF f.stage = "base" THEN 1 ELSE 2)

Logged(path, what, value, on) ==
    [path |-> path, what |-> what, value |-> value, on |-> on]

NoJob == [state |-> "none", value |-> "None"]

PyNotUnawaited(x) == "False"

\* `not x`
PyNot(x) == IF Truthy(x) THEN "False" ELSE "True"

\* `x and y`
PyAnd(x, y) == IF Truthy(x) THEN y ELSE x

\* `x or y`
PyOr(x, y) == IF Truthy(x) THEN x ELSE y

AndNeverShort(x) == FALSE

\* Lines 64-66: `if not x: return False`
AndShortCircuits(x) == ~Truthy(x)

OrNeverShort(x) == FALSE

\* Lines 97-99: `if x: return True`
OrShortCircuits(x) == Truthy(x)

\* The value v of a child reaches the innermost call: the code of __call__
\* after its await, up to the next await or through the return to the caller.
RECURSIVE Deliver(_, _, _)
Deliver(stk, log, v) ==
    IF stk = <<>> THEN [stack |-> stk, log |-> log, status |-> "done", result |-> v]
    ELSE LET f == stk[Len(stk)]
             rest == SubSeq(stk, 1, Len(stk) - 1)
             ret(r) == Deliver(rest, Append(log, Logged(f.path, "return", r, "loop")), r)
             wait == [stack |-> Append(rest, [f EXCEPT !.stage = "other", !.x = v]),
                      log |-> log, status |-> "running", result |-> "None"]
         IN  CASE f.node[1] = "not" -> ret(PyNot(v))
               [] f.node[1] = "and" /\ f.stage = "base" ->
                     IF AndShortCircuits(v) THEN ret("False") ELSE wait
               [] f.node[1] = "and" /\ f.stage = "other" -> ret(PyAnd(f.x, v))
               [] f.node[1] = "or" /\ f.stage = "base" ->
                     IF OrShortCircuits(v) THEN ret("True") ELSE wait
               [] f.node[1] = "or" /\ f.stage = "other" -> ret(PyOr(f.x, v))

PropagateAsFalse(stk, log) == Deliver(stk, log, "False")

\* A child raised: no __call__ has a try, every call in progress is abandoned.
RECURSIVE Propagate(_, _)
Propagate(stk, log) ==
    IF stk = <<>> THEN [stack |-> stk, log |-> log, status |-> "raised", result |-> "None"]
    ELSE Propagate(SubSeq(stk, 1, Len(stk) - 1),
                   Append(log, Logged(stk[Len(stk)].path, "raise", "None", "loop")))

\* The outcome `v` of a child ("raise" when it raised) reaches the task.
Outcome(stk, log, v) ==
    IF v = "raise" THEN Propagate(stk, log) ELSE Deliver(stk, log, v)

Settle(t, o) ==
    /\ stack' = [stack EXCEPT ![t] = o.stack]
    /\ flog' = [flog EXCEPT ![t] = o.log]
    /\ status' = [status EXCEPT ![t] = o.status]
    /\ verdict' = [verdict EXCEPT ![t] = o.result]

FilterInit(act, maxNodes) ==
    /\ tree \in Filters(act, maxNodes)
    /\ active = act
    /\ status = [t \in Tasks |-> "idle"]
    /\ stack = [t \in Tasks |-> <<>>]
    /\ job = [t \in Tasks |-> NoJob]
    /\ verdict = [t \in Tasks |-> "None"]
    /\ flog = [t \in Tasks |-> <<>>]

\* The dispatcher awaits the filter for an event.
Dispatch(t) ==
    /\ t \in active
    /\ status[t] = "idle"
    /\ status' = [status EXCEPT ![t] = "running"]
    /\ stack' = [stack EXCEPT ![t] = <<Frame(<<>>, tree)>>]
    /\ flog' = [flog EXCEPT ![t] = <<Logged(<<>>, "call", "None", "loop")>>]
    /\ UNCHANGED <<streamVars, tree, active, job, verdict>>

\* `await self.base(client, update)` / `await self.other(client, update)`
\* on a combinator: its __call__ starts on the same task.
AwaitCombinator(t) ==
    /\ status[t] = "running"
    /\ LET f == stack[t][Len(stack[t])]
       IN  /\ Child(f)[1] # "leaf"
           /\ iscoroutinefunction(Child(f))
           /\ stack' = [stack EXCEPT ![t] = Append(@, Frame(ChildPath(f), Child(f)))]
           /\ flog' = [flog EXCEPT ![t] =
                          Append(@, Logged(ChildPath(f), "call", "None", "loop"))]
    /\ UNCHANGED <<streamVars, tree, active, status, job, verdict>>

\* The same await on a coroutine leaf: the leaf runs on the task and its
\* value, or its exception, comes back.
AwaitLeaf(t) ==
    /\ status[t] = "running"
    /\ LET f == stack[t][Len(stack[t])]
           v == Child(f)[3][t]
           called == Append(flog[t], Logged(ChildPath(f), "call", "None", "loop"))
           back == Append(called, Logged(ChildPath(f),
                                         IF v = "raise" THEN "raise" ELSE "return",
                                         IF v = "raise" THEN "None" ELSE v, "loop"))
       IN  /\ Child(f)[1] = "leaf"
           /\ iscoroutinefunction(Child(f))
           /\ Settle(t, Outcome(stack[t], back, v))
    /\ UNCHANGED <<streamVars, tree, active, job>>

SubmitInline(t) ==
    /\ status[t] = "running"
    /\ LET f == stack[t][Len(stack[t])]
           v == Child(f)[3][t]
           called == Append(flog[t], Logged(ChildPath(f), "call", "None", "loop"))
           back == Append(called, Logged(ChildPath(f),
                                         IF v = "raise" THEN "raise" ELSE "return",
                                         IF v = "raise" THEN "None" ELSE v, "loop"))
       IN  /\ ~iscoroutinefunction(Child(f))
           /\ Settle(t, Outcome(stack[t], back, v))
    /\ UNCHANGED <<streamVars, tree, active, job>>

\* `await client.loop.run_in_executor(client.executor, child, client, update)`:
\* the call is handed to the executor and the task waits for its future.
Submit(t) ==
    /\ status[t] = "running"
    /\ ~iscoroutinefunction(Child(stack[t][Len(stack[t])]))
    /\ status' = [status EXCEPT ![t] = "waiting"]
    /\ job' = [job EXCEPT ![t] = [state |-> "queued", value |-> "None"]]
    /\ UNCHANGED <<streamVars, tree, active, stack, verdict, flog>>

\* A free worker of the executor starts the submitted call.
WorkerStart(t) ==
    /\ job[t].state = "queued"
    /\ Cardinality({u \in Tasks : job[u].state = "running"}) < NumWorkers
    /\ job' = [job EXCEPT ![t].state = "running"]
    /\ flog' = [flog EXCEPT ![t] =
                   Append(@, Logged(ChildPath(stack[t][Len(stack[t])]), "call",
                                    "None", "executor"))]
    /\ UNCHANGED <<streamVars, tree, active, status, stack, verdict>>

\* The blocking leaf returns (or raises) on its worker.
WorkerFinish(t) ==
    /\ job[t].state = "running"
    /\ LET f == stack[t][Len(stack[t])]
           v == Child(f)[3][t]
       IN  /\ job' = [job EXCEPT ![t] = [state |-> "finished", value |-> v]]
           /\ flog' = [flog EXCEPT ![t] =
                          Append(@, Logged(ChildPath(f),
                                           IF v = "raise" THEN "raise" ELSE "return",
                                           IF v = "raise" THEN "None" ELSE v,
                                           "executor"))]
    /\ UNCHANGED <<streamVars, tree, active, status, stack, verdict>>

\* The future is done: the loop resumes the task after its await.
Resume(t) ==
    /\ job[t].state = "finished"
    /\ status[t] = "waiting"
    /\ job' = [job EXCEPT ![t] = NoJob]
    /\ Settle(t, Outcome(stack[t], flog[t], job[t].value))
    /\ UNCHANGED <<streamVars, tree, active>>

DispatchStep == \E t \in Tasks : Dispatch(t)

AwaitCombinatorStep == \E t \in Tasks : AwaitCombinator(t)

AwaitLeafStep == \E t \in Tasks : AwaitLeaf(t)

SubmitStep == \E t \in Tasks : Submit(t)

WorkerStartStep == \E t \in Tasks : WorkerStart(t)

WorkerFinishStep == \E t \in Tasks : WorkerFinish(t)

ResumeStep == \E t \in Tasks : Resume(t)

FilterNext ==
    \/ DispatchStep
    \/ AwaitCombinatorStep
    \/ AwaitLeafStep
    \/ SubmitStep
    \/ WorkerStartStep
    \/ WorkerFinishStep
    \/ ResumeStep

-----------------------------------------------------------------------------
vars == <<streamVars, filterVars>>

\* The media stream alone: one filter, never dispatched.
IdleFilter == <<"not", <<"leaf", "coroutine", [t \in Tasks |-> "False"]>>>>

Init ==
    /\ StreamInit
    /\ tree = IdleFilter
    /\ active = {}
    /\ status = [t \in Tasks |-> "idle"]
    /\ stack = [t \in Tasks |-> <<>>]
    /\ job = [t \in Tasks |-> NoJob]
    /\ verdict = [t \in Tasks |-> "None"]
    /\ flog = [t \in Tasks |-> <<>>]

Next == StreamNext

Spec == Init /\ [][Next]_vars

\* The filter engine alone, evaluating one event.
InitFilter ==
    /\ Construct("file", NoneLoc, NoneFlags, NoneFlags)
    /\ FilterInit({1}, MaxNodes)

NextFilter == FilterNext

SpecFilter == InitFilter /\ [][NextFilter]_vars

-----------------------------------------------------------------------------
(* The call_participant leaf.                                               *)

\* How many members the flag type of a participant's action has.
NumActions == 3

AllActions == 2 ^ NumActions - 1

\* call_participant(flags): flags is None or a combination of actions.
ParticipantFlags == {NoneFlags} \cup 0..AllActions

\* The events: a participant update carries one action, the others none.
Updates ==
    {[type |-> "UpdatedGroupCallParticipant", action |-> a] : a \in 1..AllActions}
    \cup {[type |-> "ChatUpdate", action |-> 0],
          [type |-> "StreamAudioEnded", action |-> 0]}

\* call_participant.__call__: the intersection is computed and dropped, the
\* method falls through to `return False`.
call_participant(flags, update) ==
    IF update.type = "UpdatedGroupCallParticipant"
    THEN IF flags = NoneFlags
         THEN "True"
         ELSE LET dropped == BitAnd(flags, update.action) IN "False"
    ELSE "False"

\* The leaf call_participant(flags) with the events it is given.
ParticipantLeaf(flags, updates) ==
    <<"leaf", "coroutine",
      [t \in Tasks |-> call_participant(flags, updates[t])], flags, updates>>

\* ~call_participant(flags), evaluated for one event.
InitParticipant ==
    /\ Construct("file", NoneLoc, NoneFlags, NoneFlags)
    /\ \E flags \in ParticipantFlags, u \in Updates :
          tree = <<"not", ParticipantLeaf(flags, [t \in Tasks |-> u])>>
    /\ active = {1}
    /\ status = [t \in Tasks |-> "idle"]
    /\ stack = [t \in Tasks |-> <<>>]
    /\ job = [t \in Tasks |-> NoJob]
    /\ verdict = [t \in Tasks |-> "None"]
    /\ flog = [t \in Tasks |-> <<>>]

NextParticipant ==
    \/ DispatchStep
    \/ AwaitLeafStep

SpecParticipant == InitParticipant /\ [][NextParticipant]_vars

-----------------------------------------------------------------------------
(* Two events dispatched concurrently through one filter.                   *)

MaxDispatchNodes == 3

\* The leaves of the tree answer every event with a boolean.
RECURSIVE BooleanLeaves(_)
BooleanLeaves(node) ==
    CASE node[1] = "leaf" -> \A t \in Tasks : node[3][t] \in {"True", "False"}
      [] node[1] = "not" -> BooleanLeaves(node[2])
      [] OTHER -> BooleanLeaves(node[2]) /\ BooleanLeaves(node[3])

InitDispatch ==
    /\ Construct("file", NoneLoc, NoneFlags, NoneFlags)
    /\ tree \in {f \in Filters({1, 2}, MaxDispatchNodes) : BooleanLeaves(f)}
    /\ active = {1, 2}
    /\ status = [t \in Tasks |-> "idle"]
    /\ stack = [t \in Tasks |-> <<>>]
    /\ job = [t \in Tasks |-> NoJob]
    /\ verdict = [t \in Tasks |-> "None"]
    /\ flog = [t \in Tasks |-> <<>>]

NextDispatch == FilterNext

SpecDispatch == InitDispatch /\ [][NextDispatch]_vars

-----------------------------------------------------------------------------
(* check_stream called again on the same MediaStream.                       *)

\* How many times check_stream is called on one MediaStream.
MaxCalls == 2

CallsMade == 1 + Cardinality({i \in DOMAIN trace : trace[i].op = "call"})

\* The previous call has returned or raised; the object keeps its fields
\* (lines 130-216 never restore self.stream_video / self.stream_audio) and
\* check_stream is awaited once more.
CallAgain ==
    /\ pc \in {"done", "raised"}
    /\ CallsMade < MaxCalls
    /\ pc' = "ready"
    /\ err' = "none"
    /\ trace' = Append(trace, Ev("call", "check_stream", NoneLoc, <<>>, FALSE,
                             "again"))
    /\ UNCHANGED <<filterVars, req, video_flags, audio_flags, media_path, audio_path,
                   stream_video, stream_audio>>

InitReuse == Init

NextReuse ==
    \/ StreamNext
    \/ CallAgain

SpecReuse == InitReuse /\ [][NextReuse]_vars

-----------------------------------------------------------------------------
(* Properties of MediaStream.check_stream.                                  *)

\* The probe of `kind` was made and reported `outcome`.
Probed(kind, outcome) ==
    \E i \in DOMAIN trace :
        trace[i].op = "probe" /\ trace[i].kind = kind /\ trace[i].result = outcome

\* check_stream called `op` on behalf of `kind`.
Did(op, kind) ==
    \E i \in DOMAIN trace : trace[i].op = op /\ trace[i].kind = kind

\* The pipelines as __init__ left them.
ConstructedAudio ==
    IF Has(audio_flags, IGNORE) THEN NoStream
    ELSE Pipeline(input_mode(audio_flags),
                  build_command("ffmpeg", req.audio_path, "audio_parameters",
                                <<>>, FALSE))

ConstructedVideo ==
    IF Has(video_flags, IGNORE) THEN NoStream
    ELSE Pipeline(input_mode(video_flags),
                  build_command("ffmpeg", req.media_path, "video_parameters",
                                <<>>, FALSE))

\* C1: a REQUIRED kind whose probe reports its track missing makes
\* check_stream fail with that kind's NoSourceFound error, not return.
C1_RequiredMissingTrackFails ==
    /\ (Has(video_flags, REQUIRED) /\ Probed("video", "NoVideoTrack"))
          => (pc = "raised" /\ err = "NoVideoSourceFound")
    /\ (Has(audio_flags, REQUIRED) /\ Probed("audio", "NoAudioTrack"))
          => (pc = "raised" /\ err = "NoAudioSourceFound")

C1_Witness ==
    /\ Has(audio_flags, REQUIRED)
    /\ Probed("audio", "NoAudioTrack")
    /\ Did("build", "video")
    /\ err = "NoAudioSourceFound"

\* C2: video AUTO_DETECT with no video track is not a failure of the video
\* half: the video pipeline becomes absent, and once the audio probe (audio not IGNORE) says
\* Ok, check_stream has returned with the audio pipeline rebuilt.
C2_AutoDetectVideoFallsBack ==
    (Has(video_flags, AUTO_DETECT) /\ Probed("video", "NoVideoTrack"))
        => /\ ~stream_video.present
           /\ pc = "raised" => trace[Len(trace)].kind = "audio"
           /\ (~Has(audio_flags, IGNORE) /\ Probed("audio", "Ok"))
                 => /\ pc = "done"
                    /\ err = "none"
                    /\ stream_audio.present
                    /\ stream_audio.path =
                          build_command("ffmpeg", audio_path,
                                        "audio_parameters", <<>>, FALSE)
                    /\ trace[Len(trace)].op = "build"
                    /\ trace[Len(trace)].kind = "audio"

C2_Witness ==
    /\ Has(video_flags, AUTO_DETECT)
    /\ Probed("video", "NoVideoTrack")
    /\ Probed("audio", "Ok")
    /\ pc = "done"
    /\ ~stream_video.present
    /\ stream_audio.present

\* C3: a kind whose flags contain IGNORE has no pipeline, at construction
\* and ever after, and neither the probe nor anything else is called for it.
C3_IgnoredKindUntouched ==
    /\ Has(video_flags, IGNORE)
          => /\ ~stream_video.present
             /\ \A i \in DOMAIN trace : trace[i].kind # "video"
    /\ Has(audio_flags, IGNORE)
          => /\ ~stream_audio.present
             /\ \A i \in DOMAIN trace : trace[i].kind # "audio"

C3_Witness ==
    /\ Has(audio_flags, IGNORE)
    /\ pc = "done"
    /\ Did("probe", "video")
    /\ ~stream_audio.present

\* C4: with no audio locator given and a remote media locator that the
\* extractor resolves to (vLink, aLink), the audio probe and the audio
\* rebuild get aLink, the video probe and the video rebuild get vLink.
C4_AudioInheritsAudioLink ==
    (Falsy(req.audio_path) /\ is_valid(req.media_path))
        => /\ \A i \in DOMAIN trace :
                 trace[i].op \in {"probe", "build"}
                    => trace[i].locator =
                          IF trace[i].kind = "audio"
                          THEN extract(req.media_path)[2]
                          ELSE extract(req.media_path)[1]
           /\ (stream_audio.present /\ Did("build", "audio"))
                 => \E live \in BOOLEAN :
                       stream_audio.path =
                          build_command("ffmpeg", extract(req.media_path)[2],
                                        "audio_parameters", <<>>, live)

C4_Witness ==
    /\ req.audio_path = NoneLoc
    /\ is_valid(req.media_path)
    /\ Did("build", "video")
    /\ Did("build", "audio")
    /\ pc = "done"

\* C5: the rebuild follows the probe outcome: StillImage (video) gives the
\* image-loop arguments ahead of the locator and a non-live build,
\* LiveUnbounded a live build without them, Ok a non-live build without them.
C5_RebuildFollowsOutcome ==
    /\ \A i \in DOMAIN trace :
          (trace[i].op = "probe"
             /\ \/ trace[i].result \in {"Ok", "LiveUnbounded"}
                \/ trace[i].result = "StillImage" /\ trace[i].kind = "video")
          => /\ i < Len(trace)
             /\ trace[i + 1] =
                   Ev("build", trace[i].kind, trace[i].locator,
                      IF trace[i].result = "StillImage" THEN ImageLoop ELSE <<>>,
                      trace[i].result = "LiveUnbounded", "built")
    /\ \A i \in DOMAIN trace :
          (trace[i].op = "build" /\ trace[i].kind = "video")
          => /\ stream_video.path =
                   build_command("ffmpeg", trace[i].locator,
                                 "video_parameters", trace[i].before,
                                 trace[i].live)
             /\ trace[i - 1].result = "StillImage"
                   => /\ SubSeq(stream_video.path, 2, 5) = ImageLoop
                      /\ stream_video.path[7] = trace[i].locator
    /\ \A i \in DOMAIN trace :
          (trace[i].op = "build" /\ trace[i].kind = "audio")
          => stream_audio.path =
                build_command("ffmpeg", trace[i].locator, "audio_parameters",
                              <<>>, trace[i].live)

C5_Witness ==
    /\ Probed("video", "StillImage")
    /\ Probed("audio", "LiveUnbounded")
    /\ pc = "done"
    /\ SubSeq(stream_video.path, 2, 5) = ImageLoop

\* C6: a failing YtDlp.extract ends check_stream with that failure whatever
\* the flags are: it is the last thing done, the extracting kind keeps the
\* pipeline it was constructed with and nothing is probed or built after.
C6_ExtractionFailureFatal ==
    \A i \in DOMAIN trace :
        (trace[i].op = "extract" /\ trace[i].result = "fail")
        => /\ i = Len(trace)
           /\ pc = "raised"
           /\ err = "YtDlpError"
           /\ trace[i].kind = "video"
                 => /\ stream_video = ConstructedVideo
                    /\ stream_video.present
                    /\ stream_audio = ConstructedAudio
           /\ trace[i].kind = "audio"
                 => /\ stream_audio = ConstructedAudio
                    /\ stream_audio.present

C6_Witness ==
    /\ err = "YtDlpError"
    /\ Has(video_flags, AUTO_DETECT)
    /\ trace[Len(trace)].kind = "video"
    /\ stream_video.present

\* C7: check_stream fails only with NoSourceFound of a REQUIRED kind or with
\* the extractor's failure; with outcomes of the closed set, whichever probe
\* reports them, nothing else reaches the caller.
C7_OnlyDeclaredFailures ==
    (\A i \in DOMAIN trace :
        trace[i].op = "probe" => trace[i].result # "ProbeUnavailable")
    => (pc = "raised"
          => \/ err = "YtDlpError"
             \/ err = "NoVideoSourceFound" /\ Has(video_flags, REQUIRED)
             \/ err = "NoAudioSourceFound" /\ Has(audio_flags, REQUIRED))

\* C8: a probe that cannot be launched counts as a missing track: a REQUIRED
\* kind fails with its NoSourceFound, any other kind loses its pipeline and
\* the resolution goes on.
C8_ProbeUnavailableIsMissingTrack ==
    /\ Probed("video", "ProbeUnavailable")
          => IF Has(video_flags, REQUIRED)
             THEN pc = "raised" /\ err = "NoVideoSourceFound"
             ELSE ~stream_video.present /\ err # "FFmpegError"
    /\ Probed("audio", "ProbeUnavailable")
          => IF Has(audio_flags, REQUIRED)
             THEN pc = "raised" /\ err = "NoAudioSourceFound"
             ELSE ~stream_audio.present /\ pc = "done"

-----------------------------------------------------------------------------
(* Properties of the combinators.                                           *)

RECURSIVE PathsOf(_)
PathsOf(t) ==
    {<<>>} \cup
    (IF t[1] = "leaf" THEN {}
     ELSE {<<1>> \o q : q \in PathsOf(t[2])}
          \cup (IF t[1] = "not" THEN {} ELSE {<<2>> \o q : q \in PathsOf(t[3])}))

RECURSIVE Sub(_, _)
Sub(t, path) ==
    IF path = <<>> THEN t ELSE Sub(t[path[1] + 1], Tail(path))

\* Where in the log of event t the node at `path` did `what`.
At(t, path, what) ==
    {i \in DOMAIN flog[t] : flog[t][i].path = path /\ flog[t][i].what = what}

Calls(t, path) == Cardinality(At(t, path, "call"))

Returned(t, path, v) ==
    \E i \in At(t, path, "return") : flog[t][i].value = v

Ended(t, path) == At(t, path, "return") \cup At(t, path, "raise") # {}

AndNodes == {p \in PathsOf(tree) : Sub(tree, p)[1] = "and"}

OrNodes == {p \in PathsOf(tree) : Sub(tree, p)[1] = "or"}

\* C9: And(p, q) evaluates p first and once; when p's value is false the
\* node returns False and q is not evaluated at all.
C9_AndShortCircuit ==
    \A t \in Tasks, n \in AndNodes :
        LET p == Append(n, 1)
            q == Append(n, 2)
        IN  /\ Calls(t, p) <= Calls(t, n)
            /\ Calls(t, n) <= 1
            /\ Ended(t, n) => Calls(t, p) = 1
            /\ \A j \in At(t, q, "call") :
                  \E i \in At(t, p, "return") : i < j
            /\ \A v \in Results :
                  (~Truthy(v) /\ Returned(t, p, v))
                  => /\ Calls(t, q) = 0
                     /\ \A i \in At(t, n, "return") : flog[t][i].value = "False"
                     /\ status[t] \in {"done", "raised"} => Ended(t, n)

C9_Witness ==
    /\ status[1] = "done"
    /\ tree[1] = "and"
    /\ tree[2][1] = "not"
    /\ Returned(1, <<1>>, "False")
    /\ Returned(1, <<>>, "False")
    /\ Calls(1, <<2>>) = 0

\* C10: Or(p, q) evaluates p first and once; when p's value is true the node
\* returns True and q is not evaluated; otherwise q is evaluated once and the
\* node returns q's value.
C10_OrShortCircuit ==
    \A t \in Tasks, n \in OrNodes :
        LET p == Append(n, 1)
            q == Append(n, 2)
        IN  /\ Calls(t, p) <= Calls(t, n)
            /\ Calls(t, n) <= 1
            /\ Calls(t, q) <= 1
            /\ Ended(t, n) => Calls(t, p) = 1
            /\ \A j \in At(t, q, "call") :
                  \E i \in At(t, p, "return") : i < j
            /\ \A v \in Results :
                  (Truthy(v) /\ Returned(t, p, v))
                  => /\ Calls(t, q) = 0
                     /\ \A i \in At(t, n, "return") : flog[t][i].value = "True"
                     /\ status[t] \in {"done", "raised"} => Ended(t, n)
            /\ \A v \in Results :
                  (~Truthy(v) /\ Returned(t, p, v))
                  => /\ Ended(t, n) => Calls(t, q) = 1
                     /\ \A i \in At(t, n, "return") :
                           Returned(t, q, flog[t][i].value)
                     /\ status[t] = "done" => At(t, n, "return") # {}

C10_Witness ==
    /\ status[1] = "done"
    /\ tree[1] = "or"
    /\ tree[2][1] = "leaf"
    /\ tree[2][2] = "blocking"
    /\ tree[3][1] = "not"
    /\ Returned(1, <<1>>, "2")
    /\ Calls(1, <<2>>) = 0
    /\ verdict[1] = "True"

-----------------------------------------------------------------------------
(* Properties of MediaStream._filter_flags, applied by __init__ to every   *)
(* raw value of audio_flags and video_flags.                                *)

DetectionBits == {AUTO_DETECT, REQUIRED, IGNORE}

\* The raw value as a number: None carries no bit.
RawBits(raw) == IF raw = NoneFlags THEN 0 ELSE raw

\* C11: whatever the raw value, the canonical flags have exactly one of
\* AUTO_DETECT, REQUIRED, IGNORE set.
C11_OneDetectionBit ==
    /\ Cardinality({b \in DetectionBits : Has(video_flags, b)}) = 1
    /\ Cardinality({b \in DetectionBits : Has(audio_flags, b)}) = 1
    /\ video_flags \in 1..AllFlags
    /\ audio_flags \in 1..AllFlags

C11_Witness ==
    /\ req.video_flags = AUTO_DETECT + REQUIRED + IGNORE + NO_LATENCY
    /\ req.audio_flags = NoneFlags
    /\ video_flags = IGNORE + NO_LATENCY
    /\ audio_flags = AUTO_DETECT

\* What C12 expects of a raw value: its NO_LATENCY bit, and the largest of
\* its detection bits, AUTO_DETECT when it has none.
Canonical(raw) ==
    BitAnd(RawBits(raw), NO_LATENCY)
    + (IF Has(RawBits(raw), IGNORE) THEN IGNORE
       ELSE IF Has(RawBits(raw), REQUIRED) THEN REQUIRED
       ELSE AUTO_DETECT)

\* C12: the canonical flags are the raw value's modifier bits together with
\* its numerically largest detection bit, AUTO_DETECT when there is none.
C12_LargestDetectionBitWins ==
    /\ video_flags = Canonical(req.video_flags)
    /\ audio_flags = Canonical(req.audio_flags)

C12_Witness ==
    /\ req.video_flags = REQUIRED + IGNORE
    /\ video_flags = IGNORE
    /\ req.audio_flags = AUTO_DETECT + REQUIRED + NO_LATENCY
    /\ audio_flags = REQUIRED + NO_LATENCY

\* C13: _filter_flags applied to its own result changes nothing.
C13_FilterFlagsIdempotent ==
    /\ filter_flags(video_flags) = video_flags
    /\ filter_flags(audio_flags) = audio_flags

C13_Witness ==
    /\ req.video_flags = AUTO_DETECT + REQUIRED
    /\ video_flags = REQUIRED
    /\ filter_flags(REQUIRED) = REQUIRED
    /\ req.audio_flags = NO_LATENCY
    /\ audio_flags = AUTO_DETECT + NO_LATENCY

-----------------------------------------------------------------------------
(* Further properties of the combinators.                                   *)

Booleans == {"True", "False"}

\* The nodes Not(Not(p)) with p a leaf.
NotNotLeaves ==
    {n \in PathsOf(tree) :
        /\ Sub(tree, n)[1] = "not"
        /\ Sub(tree, n)[2][1] = "not"
        /\ Sub(tree, n)[2][2][1] = "leaf"}

\* C14: Not(Not(p)) gives what the boolean-returning leaf p gives for the
\* event, whether p is a coroutine or a blocking callable.
C14_DoubleNegation ==
    \A t \in Tasks, n \in NotNotLeaves :
        LET p == Sub(tree, n)[2][2]
        IN  p[3][t] \in Booleans
            => /\ \A i \in At(t, n, "return") : flog[t][i].value = p[3][t]
               /\ At(t, Append(Append(n, 1), 1), "return") # {}
                     => \/ At(t, n, "return") # {}
                        \/ status[t] = "waiting"
               /\ (n = <<>> /\ status[t] = "done") => verdict[t] = p[3][t]

C14_Witness ==
    /\ tree[1] = "not"
    /\ tree[2][1] = "not"
    /\ tree[2][2][1] = "leaf"
    /\ tree[2][2][2] = "blocking"
    /\ tree[2][2][3][1] = "False"
    /\ status[1] = "done"
    /\ verdict[1] = "False"

\* The first index of the log of event t at which a node raised.
Raises(t) == {i \in DOMAIN flog[t] : flog[t][i].what = "raise"}

\* C15: a raising child ends the evaluation of the whole tree with that
\* failure: no combinator returns a value after it, every call in progress
\* is abandoned, and no further child is called.
C15_ChildFailurePropagates ==
    \A t \in Tasks :
        Raises(t) # {}
        => LET first == CHOOSE i \in Raises(t) : \A j \in Raises(t) : i <= j
               leaf == flog[t][first].path
           IN  /\ Sub(tree, leaf)[1] = "leaf"
               /\ Sub(tree, leaf)[3][t] = "raise"
               /\ \A j \in DOMAIN flog[t] :
                     j > first => flog[t][j].what = "raise"
               /\ verdict[t] = "None"
               /\ status[t] \in {"raised", "waiting"}
               /\ status[t] = "waiting" => job[t] = [state |-> "finished", value |-> "raise"]
               /\ status[t] = "raised"
                     => /\ stack[t] = <<>>
                        /\ \A k \in 0..Len(leaf) :
                              At(t, SubSeq(leaf, 1, k), "raise") # {}
                        /\ \A n \in PathsOf(tree) :
                              Calls(t, n) > 0
                              => At(t, n, "return") \cup At(t, n, "raise") # {}

C15_Witness ==
    /\ tree[1] = "and"
    /\ tree[2][1] = "not"
    /\ tree[2][2][1] = "leaf"
    /\ tree[2][2][2] = "blocking"
    /\ tree[2][2][3][1] = "raise"
    /\ status[1] = "raised"
    /\ Calls(1, <<2>>) = 0
    /\ At(1, <<>>, "raise") # {}

\* What the intersection of the filter's flags and the event's action asks for.
Gated(flags, update) ==
    IF update.type # "UpdatedGroupCallParticipant" THEN "False"
    ELSE IF flags = NoneFlags THEN "True"
    ELSE IF BitAnd(flags, update.action) # 0 THEN "True"
    ELSE "False"

\* C16: call_participant(F) returns true for a participant update exactly
\* when F & action is not empty, true for every participant update when it
\* has no flags, and false for every other event.
C16_ParticipantGatedByAction ==
    \A t \in Tasks :
        (Len(tree[2]) = 5 /\ At(t, <<1>>, "return") # {})
        => \A i \in At(t, <<1>>, "return") :
              flog[t][i].value = Gated(tree[2][4], tree[2][5][t])

-----------------------------------------------------------------------------
(* Order of the two halves of check_stream.                                 *)

EventsOf(kind) == {i \in DOMAIN trace : trace[i].kind = kind}

\* The audio locator before line 177 ran: what the constructor was given,
\* or the audio link line 140 stored.
Undefaulted ==
    {req.audio_path}
    \cup (IF Falsy(req.audio_path) /\ Did("extract", "video")
          THEN {AudioLink(extract(req.media_path))} ELSE {})

InVideoHalf == pc \in {"ready", "v_extract", "v_probe"}

InAudioHalf == pc \in {"a_extract", "a_probe", "done"} \/ EventsOf("audio") # {}

\* C17: with video not ignored, the audio locator is defaulted, and the
\* audio extraction, probe and build are done, only once the video
\* extraction, probe and build (or fallback) are over; the default reads the
\* resolved media locator.
C17_AudioAfterVideo ==
    ~Has(video_flags, IGNORE)
    => /\ \A v \in EventsOf("video"), a \in EventsOf("audio") : v < a
       /\ InVideoHalf => EventsOf("audio") = {} /\ audio_path \in Undefaulted
       /\ InAudioHalf
             => /\ \E v \in EventsOf("video") : trace[v].op = "probe"
                /\ Did("build", "video") \/ ~stream_video.present
                /\ is_valid(req.media_path)
                      => /\ trace[1].op = "extract" /\ trace[1].kind = "video"
                         /\ media_path = VideoLink(extract(req.media_path))
                /\ ~is_valid(media_path)
                /\ Falsy(req.audio_path)
                      => \A a \in EventsOf("audio") :
                            trace[a].locator \in
                                {media_path} \cup
                                (IF is_valid(req.media_path)
                                 THEN {AudioLink(extract(req.media_path))}
                                 ELSE {})

C17_Witness ==
    /\ ~Has(video_flags, IGNORE)
    /\ req.media_path = "file"
    /\ req.audio_path = NoneLoc
    /\ Did("build", "video")
    /\ Did("build", "audio")
    /\ audio_path = "file"
    /\ pc = "done"

Extractions == Cardinality({i \in DOMAIN trace : trace[i].op = "extract"})

\* C18: a remote media locator, no audio locator and at least one kind not
\* ignored: YtDlp.extract is called exactly once in the call of check_stream.
C18_ExtractedOnce ==
    (/\ is_valid(req.media_path)
     /\ Falsy(req.audio_path)
     /\ ~(Has(video_flags, IGNORE) /\ Has(audio_flags, IGNORE)))
    => /\ Extractions <= 1
       /\ pc \in {"v_probe", "a_probe", "done", "raised"} => Extractions = 1

C18_Witness ==
    /\ is_valid(req.media_path)
    /\ Falsy(req.audio_path)
    /\ Has(video_flags, IGNORE)
    /\ ~Has(audio_flags, IGNORE)
    /\ pc = "done"
    /\ Did("build", "audio")
    /\ Extractions = 1

\* C20: video REQUIRED and its probe reporting no video track: check_stream
\* fails before the audio half; the audio locator is not defaulted, nothing
\* is extracted or probed for audio and the audio pipeline is as built by
\* the constructor.
C20_RequiredVideoStopsBeforeAudio ==
    (Has(video_flags, REQUIRED) /\ Probed("video", "NoVideoTrack"))
    => /\ pc = "raised"
       /\ err = "NoVideoSourceFound"
       /\ EventsOf("audio") = {}
       /\ audio_path \in Undefaulted
       /\ stream_audio = ConstructedAudio

C20_Witness ==
    /\ Has(video_flags, REQUIRED)
    /\ ~Has(audio_flags, IGNORE)
    /\ req.audio_path = NoneLoc
    /\ Probed("video", "NoVideoTrack")
    /\ audio_path = NoneLoc
    /\ stream_audio.present
    /\ pc = "raised"

-----------------------------------------------------------------------------
(* Where the children of a combinator run.                                  *)

\* A step of the evaluation of event u on the event loop.
LoopStep(u) ==
    \/ Dispatch(u)
    \/ AwaitCombinator(u)
    \/ AwaitLeaf(u)
    \/ Submit(u)

\* The blocking child submitted for event t has not returned yet.
Outstanding(t) == job[t].state \in {"queued", "running"}

\* C19: a coroutine child (every combinator is one) is called and returns
\* on the evaluating task; a blocking child is called and returns on the
\* executor only, while its task waits; another event's evaluation can take
\* its next step on the loop whatever blocking child has not returned.
C19_BlockingChildrenOffLoop ==
    /\ \A t \in Tasks : \A i \in DOMAIN flog[t] :
          flog[t][i].on = IF iscoroutinefunction(Sub(tree, flog[t][i].path))
                          THEN "loop" ELSE "executor"
    /\ \A t \in Tasks :
          Outstanding(t)
          => /\ status[t] = "waiting"
             /\ ~iscoroutinefunction(Child(stack[t][Len(stack[t])]))
             /\ \A u \in active \ {t} :
                   status[u] \in {"idle", "running"} => ENABLED LoopStep(u)

C19_Witness ==
    /\ tree[1] = "and"
    /\ tree[2] = <<"leaf", "coroutine",
                   [t \in Tasks |-> IF t = 1 THEN "True" ELSE "False"]>>
    /\ tree[3][1] = "leaf"
    /\ tree[3][2] = "blocking"
    /\ job[1].state = "running"
    /\ flog[2] # <<>>
    /\ status[2] = "done"
    /\ verdict[2] = "False"

-----------------------------------------------------------------------------
(* Repeated calls of check_stream.                                          *)

\* The last thing check_stream did was to build the command of `kind`.
BuiltLast(kind) ==
    /\ trace # <<>>
    /\ trace[Len(trace)].op = "build"
    /\ trace[Len(trace)].kind = kind

\* C21: whatever the probes report in each call, no call of check_stream
\* assigns the path of a pipeline that is absent: a pipeline dropped by an
\* earlier call is not rebuilt through None when its probe succeeds later.
C21_NoWriteThroughAbsentPipeline ==
    /\ (BuiltLast("video") /\ ~stream_video.present) => err # "AttributeError"
    /\ (BuiltLast("audio") /\ ~stream_audio.present) => err # "AttributeError"

====
